---- MODULE Spec2Model ----
(***************************************************************************)
(* Model of archive/audio_to_image.py: the pipeline                        *)
(*   main: load -> apply_mdct -> mdct_to_hsv -> plot_polar_spectrogram     *)
(* and its pure helpers get_frequency_band, band_to_hue, band_to_numbins.  *)
(*                                                                         *)
(* Real numbers are exact rationals <<numerator, denominator>> with a      *)
(* denominator >= 0.  A denominator of 0 is numpy's result of a division   *)
(* by zero (inf or nan): numpy warns and goes on, it raises nothing.       *)
(* Floating-point rounding is not modelled.                                *)
(***************************************************************************)
EXTENDS Integers, Sequences, FiniteSets, TLC

VARIABLES
    pc,           \* position of main (or of the function under test)
    exc,          \* the exception that ended the run, "none" while there is none
    audio,        \* main: audio, the samples after the optional trim (1-based here)
    sample_rate,  \* main: sample_rate
    frame_size,   \* main: frame_size
    hop_size,     \* main: hop_size
    mdct_array,   \* main: mdct_array, a sequence of rows (frames) of coefficients
    hsv_array,    \* main: hsv_array, rows of <<hue, saturation, brightness>>
    current_col,  \* plot_polar_spectrogram: current_col
    band,         \* plot_polar_spectrogram: the loop variable band
    drawn,        \* plot_polar_spectrogram: the annuli handed to pcolormesh so far
    col,          \* mdct_to_hsv hue loop: col (function-level specification)
    ret           \* mdct_to_hsv hue loop: <<band, hue[col]>> (function-level)

vars == <<pc, exc, audio, sample_rate, frame_size, hop_size, mdct_array,
          hsv_array, current_col, band, drawn, col, ret>>

----------------------------------------------------------------------------
(* Bounds of the model and constants of the program.                       *)

\* Longest waveform, in whole hops (half frames); a residue is added to it.
MaxBlocks == 3
\* Most rows of a matrix handed directly to mdct_to_hsv.
MaxFrames == 2

\* main: frame_size = 1024
FrameSize == 1024
\* plot_polar_spectrogram: max_radius = 10
MaxRadius == 10
\* plot_polar_spectrogram: for band in range(7)
NumBands == 7

\* Sample rates of the files loaded (librosa.load(..., sr=None) keeps the
\* file's own rate).
SampleRates == {44100, 48000}

----------------------------------------------------------------------------
(* Exact rational arithmetic.                                              *)

Abs(x) == IF x < 0 THEN -x ELSE x
Sign(x) == IF x < 0 THEN -1 ELSE IF x > 0 THEN 1 ELSE 0

RECURSIVE Gcd(_, _)
Gcd(a, b) == IF b = 0 THEN a ELSE Gcd(b, a % b)

\* n/d in lowest terms with d >= 0; n/0 is <<1, 0>> (inf), <<-1, 0>> (-inf)
\* or <<0, 0>> (nan).
RNorm(n, d) ==
    IF d = 0 THEN <<Sign(n), 0>>
    ELSE LET g == Gcd(Abs(n), Abs(d))
         IN  <<(Sign(d) * n) \div g, Abs(d) \div g>>
R(n) == <<n, 1>>
RAdd(a, b) == RNorm(a[1] * b[2] + b[1] * a[2], a[2] * b[2])
RSub(a, b) == RNorm(a[1] * b[2] - b[1] * a[2], a[2] * b[2])
RMul(a, b) == RNorm(a[1] * b[1], a[2] * b[2])
RDiv(a, b) == RNorm(a[1] * b[2], a[2] * b[1])
IsFinite(a) == a[2] # 0
REq(a, b) == IsFinite(a) /\ IsFinite(b) /\ a[1] * b[2] = b[1] * a[2]
RLeq(a, b) == IsFinite(a) /\ IsFinite(b) /\ a[1] * b[2] <= b[1] * a[2]
RLess(a, b) == IsFinite(a) /\ IsFinite(b) /\ a[1] * b[2] < b[1] * a[2]

SetMax(S) == CHOOSE x \in S : \A y \in S : y <= x
SetMin(S) == CHOOSE x \in S : \A y \in S : x <= y

----------------------------------------------------------------------------
(* Band Mapper.                                                            *)

\* get_frequency_band with its last branch excluding 6000 Hz itself.
get_frequency_band_strict(index, sr, fsize) ==
    LET freq == RDiv(R(index * sr), R(fsize))
    IN  IF RLeq(R(0), freq) /\ RLess(freq, R(60)) THEN 0
        ELSE IF RLeq(R(60), freq) /\ RLess(freq, R(250)) THEN 1
        ELSE IF RLeq(R(250), freq) /\ RLess(freq, R(500)) THEN 2
        ELSE IF RLeq(R(500), freq) /\ RLess(freq, R(2000)) THEN 3
        ELSE IF RLeq(R(2000), freq) /\ RLess(freq, R(4000)) THEN 4
        ELSE IF RLeq(R(4000), freq) /\ RLess(freq, R(6000)) THEN 5
        ELSE IF RLess(R(6000), freq) THEN 6
        ELSE 7

\* freq = index * sample_rate / frame_size, then the if/elif chain.
get_frequency_band(index, sr, fsize) ==
    LET freq == RDiv(R(index * sr), R(fsize))
    IN  IF RLeq(R(0), freq) /\ RLess(freq, R(60)) THEN 0
        ELSE IF RLeq(R(60), freq) /\ RLess(freq, R(250)) THEN 1
        ELSE IF RLeq(R(250), freq) /\ RLess(freq, R(500)) THEN 2
        ELSE IF RLeq(R(500), freq) /\ RLess(freq, R(2000)) THEN 3
        ELSE IF RLeq(R(2000), freq) /\ RLess(freq, R(4000)) THEN 4
        ELSE IF RLeq(R(4000), freq) /\ RLess(freq, R(6000)) THEN 5
        ELSE IF RLeq(R(6000), freq) THEN 6
        ELSE 7

\* hue_values = [0, 0.1, 0.2, 0.4, 0.6, 0.8, 0.9]
hue_values == << <<0, 10>>, <<1, 10>>, <<2, 10>>, <<4, 10>>,
                 <<6, 10>>, <<8, 10>>, <<9, 10>> >>

\* band_to_hue with the midrange and upper-midrange hues swapped.
band_to_hue_swapped(b) ==
    IF b \in 0..(Len(hue_values) - 1)
    THEN << <<0, 10>>, <<1, 10>>, <<2, 10>>, <<6, 10>>,
            <<4, 10>>, <<8, 10>>, <<9, 10>> >>[b + 1]
    ELSE "IndexError"

\* hue_values[band]; the bands reaching it are 0..7, and 7 is past the list.
band_to_hue(b) ==
    IF b \in 0..(Len(hue_values) - 1) THEN hue_values[b + 1] ELSE "IndexError"

\* band_to_numbins with one bin too many in the last band.
band_to_numbins_long(b) ==
    CASE b = 0 -> 2
      [] b = 1 -> 4
      [] b = 2 -> 5
      [] b = 3 -> 32
      [] b = 4 -> 43
      [] b = 5 -> 42
      [] b = 6 -> 385
      [] OTHER -> 0

band_to_numbins(b) ==
    CASE b = 0 -> 2
      [] b = 1 -> 4
      [] b = 2 -> 5
      [] b = 3 -> 32
      [] b = 4 -> 43
      [] b = 5 -> 42
      [] b = 6 -> 384
      [] OTHER -> 0

----------------------------------------------------------------------------
(* Framer/Transformer.                                                     *)

\* num_frames with the frame count taken from the length alone.
num_frames_by_length(len, fsize, hop) == len \div hop

\* num_frames = 1 + (len(audio) - frame_size) // hop_size  (floor division)
num_frames(len, fsize, hop) == 1 + (len - fsize) \div hop

\* audio[start:end]: a slice is clipped to the array, it never raises.
Slice(a, start, end) ==
    LET lo == IF start < Len(a) THEN start ELSE Len(a)
        hi == IF end < Len(a) THEN end ELSE Len(a)
    IN  [i \in 1..(IF hi > lo THEN hi - lo ELSE 0) |-> a[lo + i]]

\* audio[start:end] * window: numpy broadcasts a slice of frame_size samples
\* (or of one sample) against the frame_size window values, and raises
\* ValueError for any other length.
Broadcasts(a, n, fsize, hop) ==
    Len(Slice(a, n * hop, n * hop + fsize)) \in {1, fsize}

\* The window sin(pi * (i + 0.5) / frame_size) is positive at every i, so the
\* windowed frame is zero exactly when the slice is.
FrameIsZero(a, n, fsize, hop) ==
    LET s == Slice(a, n * hop, n * hop + fsize)
    IN  \A i \in 1..Len(s) : s[i] = 0

\* A row of frame_size // 2 coefficients (mdct_frames[:, :frame_size//2]):
\* p[1] at the even bins 0, 2, ... and p[2] at the odd ones.
Row(p, fsize) == [k \in 1..(fsize \div 2) |-> IF k % 2 = 1 THEN p[1] ELSE p[2]]

\* scipy's fftpack.dct is linear: a zero frame gives zero coefficients.  Of a
\* frame that is not zero the kept half of the coefficients is drawn from
\* these rows (the zero row: all the energy in the dropped upper half).
RowChoices == {<<0, 0>>, <<9, -9>>, <<99, -9>>}

\* Whether apply_mdct raises: np.empty refuses a negative frame count, and the
\* window product refuses a slice it cannot broadcast.
apply_mdct_raises(a, fsize, hop) ==
    LET nf == num_frames(Len(a), fsize, hop)
    IN  \/ nf < 0
        \/ \E n \in 0..(nf - 1) : ~Broadcasts(a, n, fsize, hop)

\* The matrices apply_mdct can return for the waveform a.
apply_mdct(a, fsize, hop) ==
    LET nf == num_frames(Len(a), fsize, hop)
    IN  { [n \in 1..nf |->
             IF FrameIsZero(a, n - 1, fsize, hop)
             THEN Row(<<0, 0>>, fsize)
             ELSE Row(choice[n], fsize)] :
          choice \in [1..nf -> RowChoices] }

----------------------------------------------------------------------------
(* Color Encoder.                                                          *)

RECURSIVE Log10(_)
\* log10 of a power of ten; the coefficient values of the model (0, 9, 99 in
\* magnitude) make |M| + 1 a power of ten, so that log10 is exact.
Log10(x) == IF x < 10 THEN 0 ELSE 1 + Log10(x \div 10)

NumRows(M) == Len(M)
NumCols(M) == IF Len(M) = 0 THEN 0 ELSE Len(M[1])
Cells(M) == {<<f, k>> : f \in 1..NumRows(M), k \in 1..NumCols(M)}

\* abs_mdct = np.abs(mdct_array); log_mdct = np.log10(abs_mdct + 1)
log_mdct(x) == Log10(Abs(x) + 1)
min_log_value(M) == SetMin({log_mdct(M[c[1]][c[2]]) : c \in Cells(M)})
max_log_value(M) == SetMax({log_mdct(M[c[1]][c[2]]) : c \in Cells(M)})

\* brightness normalised by the maximum alone.
brightness_by_max(l, lo, hi) == RDiv(RSub(R(l), R(lo)), R(hi))

\* brightness = (log_mdct - min_log_value) / (max_log_value - min_log_value)
brightness(l, lo, hi) == RDiv(RSub(R(l), R(lo)), RSub(R(hi), R(lo)))

\* max_abs_value = np.max(np.abs(mdct_array))
max_abs_value(M) == SetMax({Abs(M[c[1]][c[2]]) : c \in Cells(M)})

\* scaling_factor with a half-width of 0.3.
scaling_factor_wide(m) == RDiv(<<3, 10>>, R(m))

\* scaling_factor = 0.2 / max_abs_value
scaling_factor(m) == RDiv(<<2, 10>>, R(m))

\* saturation = 0.8 + scaling_factor * mdct_array
saturation(x, scale) == RAdd(<<8, 10>>, RMul(scale, R(x)))

\* hue[col] = band_to_hue(get_frequency_band(col, sample_rate, frame_size))
\* for col in range(frame_size // 2)
hue_row(fsize, sr) ==
    [k \in 1..(fsize \div 2) |-> band_to_hue(get_frequency_band(k - 1, sr, fsize))]

\* The exception mdct_to_hsv raises, "none" when it returns: np.min of an
\* empty array, hue_values indexed past its end, np.stack of a hue array whose
\* width (frame_size // 2) is not the matrix's.
mdct_to_hsv_raises(M, fsize, sr) ==
    IF Cells(M) = {} THEN "ValueError"
    ELSE IF \E k \in 1..(fsize \div 2) : hue_row(fsize, sr)[k] = "IndexError"
         THEN "IndexError"
    ELSE IF NumCols(M) # fsize \div 2 THEN "ValueError"
    ELSE "none"

\* hsv_array = np.stack((hue, saturation, brightness), axis=-1)
mdct_to_hsv(M, fsize, sr) ==
    LET lo == min_log_value(M)
        hi == max_log_value(M)
        scale == scaling_factor(max_abs_value(M))
        hue == hue_row(fsize, sr)
    IN  [f \in 1..NumRows(M) |->
           [k \in 1..NumCols(M) |->
              << hue[k],
                 saturation(M[f][k], scale),
                 brightness(log_mdct(M[f][k]), lo, hi) >>]]

----------------------------------------------------------------------------
(* Polar Renderer.                                                         *)

\* min_radius = max_radius / 8
min_radius == RDiv(R(MaxRadius), R(8))

\* np.linspace(a, b, num)[i] = a + i * (b - a) / (num - 1)
linspace(a, b, num, i) == RAdd(a, RMul(R(i), RDiv(RSub(b, a), R(num - 1))))

\* band_radii without the reversal.
band_radii_ascending(j) == linspace(min_radius, R(MaxRadius), NumBands + 1, j)

\* band_radii = np.linspace(min_radius, max_radius, 8)[::-1]
band_radii(j) == linspace(min_radius, R(MaxRadius), NumBands + 1, NumBands - j)

----------------------------------------------------------------------------
(* main, one action per stage; the loop of plot_polar_spectrogram one      *)
(* action per iteration.                                                   *)

Raise(e) ==
    /\ pc' = "error"
    /\ exc' = e

\* Waveform lengths: whole hops plus a residue.
Residues == {0, 1, FrameSize \div 2 - 1}
Lengths == {q * (FrameSize \div 2) + r : q \in 0..MaxBlocks, r \in Residues}

\* Silence, or silence with one hop-long block of samples of value 1
\* (tone = -1: no such block).
Waveform(n, tone) ==
    [i \in 1..n |-> IF (i - 1) \div (FrameSize \div 2) = tone THEN 1 ELSE 0]

\* frame_size = 1024; hop_size = frame_size // 2; librosa.load; the trim.
Init ==
    /\ pc = "loaded"
    /\ exc = "none"
    /\ frame_size = FrameSize
    /\ hop_size = FrameSize \div 2
    /\ sample_rate \in SampleRates
    /\ \E n \in Lengths, tone \in (-1)..MaxBlocks : audio = Waveform(n, tone)
    /\ mdct_array = <<>>
    /\ hsv_array = <<>>
    /\ current_col = 0
    /\ band = 0
    /\ drawn = <<>>
    /\ col = 0
    /\ ret = <<>>

\* mdct_array = apply_mdct(audio, frame_size, hop_size, sample_rate)
ApplyMdct ==
    /\ pc = "loaded"
    /\ IF apply_mdct_raises(audio, frame_size, hop_size)
       THEN /\ Raise("ValueError")
            /\ UNCHANGED mdct_array
       ELSE /\ mdct_array' \in apply_mdct(audio, frame_size, hop_size)
            /\ pc' = "mdct_done"
            /\ UNCHANGED exc
    /\ UNCHANGED <<audio, sample_rate, frame_size, hop_size, hsv_array,
                   current_col, band, drawn, col, ret>>

\* min_value = np.min(mdct_array); max_value = np.max(mdct_array): numpy
\* raises ValueError for an array of no elements.  Neither value is used.
MinMax ==
    /\ pc = "mdct_done"
    /\ IF Cells(mdct_array) = {}
       THEN Raise("ValueError")
       ELSE /\ pc' = "minmax_done"
            /\ UNCHANGED exc
    /\ UNCHANGED <<audio, sample_rate, frame_size, hop_size, mdct_array,
                   hsv_array, current_col, band, drawn, col, ret>>

\* hsv_array = mdct_to_hsv(mdct_array, frame_size, sample_rate)
MdctToHsv ==
    /\ pc = "minmax_done"
    /\ IF mdct_to_hsv_raises(mdct_array, frame_size, sample_rate) # "none"
       THEN /\ Raise(mdct_to_hsv_raises(mdct_array, frame_size, sample_rate))
            /\ UNCHANGED hsv_array
       ELSE /\ hsv_array' = mdct_to_hsv(mdct_array, frame_size, sample_rate)
            /\ pc' = "hsv_done"
            /\ UNCHANGED exc
    /\ UNCHANGED <<audio, sample_rate, frame_size, hop_size, mdct_array,
                   current_col, band, drawn, col, ret>>

\* plot_polar_spectrogram up to the loop: current_col = 0.
PlotBegin ==
    /\ pc = "hsv_done"
    /\ pc' = "plotting"
    /\ current_col' = 0
    /\ band' = 0
    /\ drawn' = <<>>
    /\ UNCHANGED <<exc, audio, sample_rate, frame_size, hop_size, mdct_array,
                   hsv_array, col, ret>>

\* One iteration of `for band in range(7)`.  rgb_array[:, band_columns, :]
\* raises IndexError for a column that is not one of the array's.
PlotBand ==
    /\ pc = "plotting"
    /\ band < NumBands
    /\ LET num_band_columns == band_to_numbins(band)
           band_columns == current_col..(current_col + num_band_columns - 1)
       IN  /\ current_col' = current_col + num_band_columns
           /\ IF \E c \in band_columns : c >= NumCols(hsv_array)
              THEN /\ Raise("IndexError")
                   /\ UNCHANGED <<band, drawn>>
              ELSE /\ drawn' = Append(drawn,
                                  [band |-> band,
                                   outer_radius |-> band_radii(band),
                                   inner_radius |-> band_radii(band + 1),
                                   columns |-> band_columns])
                   /\ band' = band + 1
                   /\ UNCHANGED <<pc, exc>>
    /\ UNCHANGED <<audio, sample_rate, frame_size, hop_size, mdct_array,
                   hsv_array, col, ret>>

\* plt.savefig(output_filename, ...) after the loop.
Savefig ==
    /\ pc = "plotting"
    /\ band = NumBands
    /\ pc' = "written"
    /\ UNCHANGED <<exc, audio, sample_rate, frame_size, hop_size, mdct_array,
                   hsv_array, current_col, band, drawn, col, ret>>

Next == ApplyMdct \/ MinMax \/ MdctToHsv \/ PlotBegin \/ PlotBand \/ Savefig

Spec == Init /\ [][Next]_vars

----------------------------------------------------------------------------
(* mdct_to_hsv on its own: every matrix of up to MaxFrames rows over the   *)
(* coefficient values, for a frame size of 4 (two bins).                   *)

CoefValues == {-99, -9, 0, 9, 99}
HsvFrameSizes == {4}

InitHsv ==
    /\ pc = "minmax_done"
    /\ exc = "none"
    /\ frame_size \in HsvFrameSizes
    /\ hop_size = frame_size \div 2
    /\ sample_rate \in SampleRates
    /\ audio = <<>>
    /\ \E nf \in 1..MaxFrames :
          mdct_array \in [1..nf -> [1..(frame_size \div 2) -> CoefValues]]
    /\ hsv_array = <<>>
    /\ current_col = 0
    /\ band = 0
    /\ drawn = <<>>
    /\ col = 0
    /\ ret = <<>>

NextHsv == MdctToHsv

SpecHsv == InitHsv /\ [][NextHsv]_vars

----------------------------------------------------------------------------
(* The body of the hue loop of mdct_to_hsv on its own: one bin index of    *)
(* one frame size at one sample rate.                                      *)

BandFrameSizes == {1, 2, 3, 16, 1024}
BandSampleRates == {1, 8000, 44100, 48000}

InitBand ==
    /\ pc = "hue_loop"
    /\ exc = "none"
    /\ frame_size \in BandFrameSizes
    /\ hop_size = frame_size \div 2
    /\ sample_rate \in BandSampleRates
    /\ col \in {k \in 0..(frame_size \div 2) : 2 * k < frame_size}
    /\ ret = <<>>
    /\ audio = <<>>
    /\ mdct_array = <<>>
    /\ hsv_array = <<>>
    /\ current_col = 0
    /\ band = 0
    /\ drawn = <<>>

\* band = get_frequency_band(col, sample_rate, frame_size)
\* hue[col] = band_to_hue(band)
HueLoopBody ==
    /\ pc = "hue_loop"
    /\ LET b == get_frequency_band(col, sample_rate, frame_size)
       IN  ret' = <<b, band_to_hue(b)>>
    /\ pc' = "hue_done"
    /\ UNCHANGED <<exc, audio, sample_rate, frame_size, hop_size, mdct_array,
                   hsv_array, current_col, band, drawn, col>>

NextBand == HueLoopBody

SpecBand == InitBand /\ [][NextBand]_vars

----------------------------------------------------------------------------
(* Properties.                                                             *)

Silent == \A i \in 1..Len(audio) : audio[i] = 0
NotAllZero(M) == \E c \in Cells(M) : M[c[1]][c[2]] # 0

\* C1: a run on digital silence, of any length, ends in an error and never
\* reaches the image write.
C1_SilenceNeverWritten ==
    Silent => pc # "written"

\* C2: a waveform shorter than one frame makes the pipeline raise: apply_mdct
\* returns no empty matrix to main, and no later stage runs.
C2_ShortInputRaisesInApplyMdct ==
    Len(audio) < frame_size =>
        /\ (pc = "mdct_done" => NumRows(mdct_array) > 0)
        /\ pc \notin {"minmax_done", "hsv_done", "plotting", "written"}

\* C3: for a waveform of N >= F samples apply_mdct returns 1 + floor((N-F)/H)
\* frames of F/2 bins; the frame indices are exactly the n with n*H + F <= N,
\* so every frame's samples [n*H, n*H + F) are samples of the waveform.
C3_FrameCount ==
    (pc \in {"mdct_done", "error"} /\ Len(audio) >= frame_size) =>
        /\ NumRows(mdct_array) = 1 + (Len(audio) - frame_size) \div hop_size
        /\ NumCols(mdct_array) = frame_size \div 2
        /\ 0..(NumRows(mdct_array) - 1)
             = {n \in 0..Len(audio) : n * hop_size + frame_size <= Len(audio)}
        /\ \A n \in 0..(NumRows(mdct_array) - 1) :
              /\ n * hop_size >= 0
              /\ n * hop_size + frame_size <= Len(audio)
              /\ Len(Slice(audio, n * hop_size, n * hop_size + frame_size))
                   = frame_size

C3_Witness ==
    /\ pc = "mdct_done"
    /\ Len(audio) > frame_size + hop_size
    /\ Len(audio) % hop_size # 0
    /\ NumRows(mdct_array) = 2

\* Lower edges in Hz of the bands 0..6; band b ends where band b+1 starts and
\* band 6 has no upper edge.
BandEdges == <<0, 60, 250, 500, 2000, 4000, 6000>>
InBand(k, sr, fsize, b) ==
    /\ BandEdges[b + 1] * fsize <= k * sr
    /\ (b < 6 => k * sr < BandEdges[b + 2] * fsize)

\* C4: for F > 0, sr > 0 and a bin index k in [0, F/2), get_frequency_band
\* returns the one band of 0..6 whose half-open range holds k*sr/F, never the
\* sentinel 7, so that band_to_hue is not indexed past its table.
C4_BandInRange ==
    pc = "hue_done" =>
        /\ ret[1] \in 0..6
        /\ \A b \in 0..6 : InBand(col, sample_rate, frame_size, b) <=> b = ret[1]
        /\ ret[2] # "IndexError"
        /\ ret[2] = hue_values[ret[1] + 1]

C4_Witness ==
    /\ pc = "hue_done"
    /\ col * sample_rate = 6000 * frame_size
    /\ ret[1] = 6

RECURSIVE SumBins(_)
SumBins(b) == IF b < 0 THEN 0 ELSE band_to_numbins(b) + SumBins(b - 1)

\* C5: the bin counts of the bands 0..6 sum to F/2 = 512; in the loop of
\* plot_polar_spectrogram the column ranges of the bands are disjoint,
\* contiguous in ascending band order and inside [0, num_cols) at every
\* iteration, and after band 6 current_col = num_cols, every column drawn once.
C5_ColumnsPartition ==
    /\ SumBins(NumBands - 1) = FrameSize \div 2
    /\ pc \in {"plotting", "written"} =>
          /\ current_col <= NumCols(hsv_array)
          /\ \A i \in 1..Len(drawn) :
                /\ drawn[i].band = i - 1
                /\ drawn[i].columns \subseteq 0..(NumCols(hsv_array) - 1)
                /\ drawn[i].columns # {}
                /\ SetMin(drawn[i].columns)
                     = (IF i = 1 THEN 0 ELSE SetMax(drawn[i - 1].columns) + 1)
                /\ \A j \in 1..Len(drawn) :
                      i # j => drawn[i].columns \cap drawn[j].columns = {}
          /\ (Len(drawn) > 0 => current_col = SetMax(drawn[Len(drawn)].columns) + 1)
    /\ pc = "written" =>
          /\ current_col = NumCols(hsv_array)
          /\ \A c \in 0..(NumCols(hsv_array) - 1) :
                Cardinality({i \in 1..Len(drawn) : c \in drawn[i].columns}) = 1

C5_Witness ==
    /\ pc = "written"
    /\ Len(drawn) = NumBands
    /\ current_col = 512

\* C6: for a matrix that is not entirely zero every saturation lies in
\* [0.6, 1.0]; it is 1.0 only where M = +max|M| and 0.6 only where
\* M = -max|M|.
C6_SaturationRange ==
    (pc = "hsv_done" /\ NotAllZero(mdct_array)) =>
        \A c \in Cells(mdct_array) :
            LET x == mdct_array[c[1]][c[2]]
                s == hsv_array[c[1]][c[2]][2]
            IN  /\ RLeq(<<6, 10>>, s)
                /\ RLeq(s, R(1))
                /\ (REq(s, R(1)) => x = max_abs_value(mdct_array))
                /\ (REq(s, <<6, 10>>) => x = -max_abs_value(mdct_array))

C6_Witness ==
    /\ pc = "hsv_done"
    /\ \E c \in Cells(mdct_array) :
          mdct_array[c[1]][c[2]] = 99 /\ REq(hsv_array[c[1]][c[2]][2], R(1))
    /\ \E c \in Cells(mdct_array) :
          mdct_array[c[1]][c[2]] = -99 /\ REq(hsv_array[c[1]][c[2]][2], <<6, 10>>)
    /\ \E c \in Cells(mdct_array) :
          mdct_array[c[1]][c[2]] = 9 /\ RLess(hsv_array[c[1]][c[2]][2], R(1))

BrightnessNormalised(M, H) ==
    \A c \in Cells(M) :
        LET x == Abs(M[c[1]][c[2]])
            v == H[c[1]][c[2]][3]
        IN  /\ IsFinite(v)
            /\ RLeq(R(0), v)
            /\ RLeq(v, R(1))
            /\ (x = max_abs_value(M) => REq(v, R(1)))
            /\ (\A d \in Cells(M) : x <= Abs(M[d[1]][d[2]])) => REq(v, R(0))
            /\ \A d \in Cells(M) :
                  x <= Abs(M[d[1]][d[2]]) => RLeq(v, H[d[1]][d[2]][3])

LogMagnitudesDiffer(M) ==
    Cells(M) # {} /\ min_log_value(M) < max_log_value(M)

HueTenths == <<0, 1, 2, 4, 6, 8, 9>>

\* C8: the hue of cell (frame, bin) depends on the bin alone: it is the same
\* in every frame, the same for two bins of one band, and it is the band's
\* entry in {0: 0.0, 1: 0.1, 2: 0.2, 3: 0.4, 4: 0.6, 5: 0.8, 6: 0.9}.
C8_HueByBand ==
    pc = "hsv_done" =>
        /\ \A f \in 1..NumRows(hsv_array), k \in 1..NumCols(hsv_array) :
              hsv_array[f][k][1] = hsv_array[1][k][1]
        /\ \A k \in 1..NumCols(hsv_array) :
              LET b == get_frequency_band(k - 1, sample_rate, frame_size)
              IN  /\ b \in 0..6
                  /\ REq(hsv_array[1][k][1], <<HueTenths[b + 1], 10>>)
        /\ \A b \in 0..6 :
              Cardinality({hsv_array[1][k][1] :
                             k \in {j \in 1..NumCols(hsv_array) :
                                      get_frequency_band(j - 1, sample_rate,
                                                         frame_size) = b}}) <= 1

C8_Witness ==
    /\ pc = "hsv_done"
    /\ NumRows(hsv_array) = 2
    /\ NumCols(hsv_array) = 512
    /\ hsv_array[2][12][1] = hsv_array[2][13][1]
    /\ hsv_array[2][1][1] # hsv_array[2][512][1]

\* C9: for frame size 1024 and every sample rate (44100 Hz, 48000 Hz) the
\* bin count of each band in band_to_numbins is the number of bins k in
\* [0, 512) that get_frequency_band gives that band, so the annulus a column
\* is drawn in is the annulus of the band whose hue the column has.
C9_TableMatchesBands ==
    pc = "written" =>
        /\ \A b \in 0..(NumBands - 1) :
              band_to_numbins(b)
                = Cardinality({k \in 0..(frame_size \div 2 - 1) :
                                 get_frequency_band(k, sample_rate, frame_size) = b})
        /\ \A i \in 1..Len(drawn) : \A c \in drawn[i].columns :
              /\ get_frequency_band(c, sample_rate, frame_size) = drawn[i].band
              /\ hsv_array[1][c + 1][1] = band_to_hue(drawn[i].band)

\* C10: the 8 boundary radii are equally spaced from max_radius/8 to
\* max_radius, in reverse: each band's outer radius is above its inner one,
\* the inner radius of band b is the outer radius of band b+1, band 0 ends
\* at max_radius, band 6 starts at max_radius/8, and all annuli are equally
\* thick.
C10_Annuli ==
    \A i \in 1..Len(drawn) :
        LET d == drawn[i]
        IN  /\ RLess(d.inner_radius, d.outer_radius)
            /\ (i > 1 => REq(drawn[i - 1].inner_radius, d.outer_radius))
            /\ (i = 1 => REq(d.outer_radius, R(MaxRadius)))
            /\ (i = NumBands => REq(d.inner_radius, <<MaxRadius, 8>>))
            /\ REq(RSub(d.outer_radius, d.inner_radius),
                   RSub(drawn[1].outer_radius, drawn[1].inner_radius))
            /\ REq(RMul(R(NumBands), RSub(d.outer_radius, d.inner_radius)),
                   RSub(R(MaxRadius), <<MaxRadius, 8>>))

C10_Witness ==
    /\ pc = "written"
    /\ Len(drawn) = NumBands
    /\ REq(drawn[NumBands].inner_radius, <<5, 4>>)
    /\ REq(drawn[1].outer_radius, R(10))

====
